---------------------------- MODULE Spec2Model ----------------------------
(***************************************************************************)
(* A model of external-dns-simply-webhook: the FQDN resolver (ParseFQDN),  *)
(* the diff (calculateChanges / endpointsEqual), the two ApplyChanges      *)
(* handlers (the diff-based one and the array-based one) with the remote   *)
(* record store they mutate, GetRecords, AdjustEndpoints, and getDomains   *)
(* under concurrent requests.                                              *)
(*                                                                         *)
(* Strings are sequences of one-character strings, so that the byte-level  *)
(* operations of the code (strings.HasSuffix, strings.TrimSuffix,          *)
(* strings.Split, Sprintf/Sscanf of "%d") are computed, not assumed.       *)
(* The name  e.c  plays the part of example.com,  ne.c  of                 *)
(* notexample.com,  h.e.c  of host.example.com.                            *)
(***************************************************************************)
EXTENDS Integers, Sequences, FiniteSets, TLC

VARIABLES
    fqdn,        \* ParseFQDN: the name handed in
    domains,     \* ParseFQDN: the list of known domains handed in
    parsed,      \* ParseFQDN: what the call returned
    current,     \* calculateChanges: the current endpoints handed in
    desired,     \* calculateChanges: the desired endpoints handed in
    changes,     \* calculateChanges: what the call returned
    store,       \* the provider's records, in listing order
    store0,      \* the provider's records when the pass began
    nextID,      \* the ID the provider gives the next record it adds
    managedDomains, \* Handler.managedDomains, the cached domain list
    wanted,      \* the controller's desired endpoints
    fetched,     \* the endpoints GET /records answered with
    pc,          \* where the pass is: start, fetched, apply, done
    localDomains,   \* ApplyChanges: its local variable domains
    pending,     \* ApplyChanges: creates, updates, deletes not yet applied
    calls,       \* the remote calls of the pass, in the order issued
    response,    \* the response of POST /records
    arrayReq,    \* array-based ApplyChanges: the decoded request body
    recordMap,   \* array-based ApplyChanges: its map from name:type to record
    cursor,      \* array-based ApplyChanges: how far each of its loops is
    adjustReq,   \* AdjustEndpoints: the endpoints of the request body
    adjustResp,  \* AdjustEndpoints: the status and the body of its response
    heap,        \* the arrays the slices of concurrent requests point to
    managedSlice,   \* Handler.managedDomains as a slice: its array in heap
    requests     \* concurrent ApplyChanges requests: where each one is

parseVars == <<fqdn, domains, parsed>>

diffVars == <<current, desired, changes>>

handlerVars == <<store, store0, nextID, managedDomains, wanted, fetched, pc,
                 localDomains, pending, calls, response>>

arrayVars == <<arrayReq, recordMap, cursor>>

adjustVars == <<adjustReq, adjustResp>>

raceVars == <<heap, managedSlice, requests>>

vars == <<fqdn, domains, parsed, current, desired, changes, store, store0,
          nextID, managedDomains, wanted, fetched, pc, localDomains, pending,
          calls, response, arrayReq, recordMap, cursor, adjustReq, adjustResp,
          heap, managedSlice, requests>>

---------------------------------------------------------------------------
(* Bounds of the model *)

\* labels in a name of the resolver's input universe
MaxLabels == 3

\* known domains handed to the resolver
MaxDomains == 3

\* endpoints in each list handed to calculateChanges
MaxEndpoints == 2

\* records the provider holds when a pass begins
MaxRecords == 2

\* endpoints the controller desires in a pass
MaxWanted == 2

\* endpoints in each list of an array-based request
MaxChanges == 1

\* endpoints in a request to POST /adjustendpoints
MaxAdjust == 2

\* ApplyChanges requests served at the same time
MaxRequests == 2

---------------------------------------------------------------------------
(* Strings *)

SeqsUpTo(S, n) == UNION {[1..k -> S] : k \in 0..n}

Dot == "."

EmptyString == <<>>

\* strings.HasSuffix
HasSuffix(s, suffix) ==
    /\ Len(suffix) <= Len(s)
    /\ SubSeq(s, Len(s) - Len(suffix) + 1, Len(s)) = suffix

\* strings.TrimSuffix
TrimSuffix(s, suffix) ==
    IF HasSuffix(s, suffix) THEN SubSeq(s, 1, Len(s) - Len(suffix)) ELSE s

\* strings.Join(labels, ".")
RECURSIVE Join(_)
Join(labels) ==
    IF labels = <<>> THEN EmptyString
    ELSE IF Len(labels) = 1 THEN Head(labels)
    ELSE Head(labels) \o <<Dot>> \o Join(Tail(labels))

---------------------------------------------------------------------------
(* The FQDN resolver: pkg/simply/client.go, ParseFQDN *)

\* the loop of ParseFQDN: the longest d of domains, in list order, that
\* strings.HasSuffix(fqdn, d) accepts; matched is matchedDomain so far
RECURSIVE LongestMatch(_, _, _)
LongestMatch(name, ds, matched) ==
    IF ds = <<>> THEN matched
    ELSE LongestMatch(name, Tail(ds),
            IF HasSuffix(name, Head(ds)) /\ Len(Head(ds)) > Len(matched)
            THEN Head(ds) ELSE matched)

\* ParseFQDN without its apex case (lines 200-202 left out)
ParseFQDNNoApex(name, ds) ==
    LET f == TrimSuffix(name, <<Dot>>)
        matchedDomain == LongestMatch(f, ds, EmptyString)
    IN  IF matchedDomain = EmptyString
        THEN [host |-> f, domain |-> EmptyString]
        ELSE [host |-> TrimSuffix(f, <<Dot>> \o matchedDomain),
              domain |-> matchedDomain]

ParseFQDN(name, ds) ==
    LET f == TrimSuffix(name, <<Dot>>)
        matchedDomain == LongestMatch(f, ds, EmptyString)
    IN  IF matchedDomain = EmptyString
        THEN [host |-> f, domain |-> EmptyString]
        ELSE IF f = matchedDomain
        THEN [host |-> <<"@">>, domain |-> matchedDomain]
        ELSE [host |-> TrimSuffix(f, <<Dot>> \o matchedDomain),
              domain |-> matchedDomain]

---------------------------------------------------------------------------
(* Sprintf("%d") and Sscanf("%d") *)

DigitChars == <<"0", "1", "2", "3", "4", "5", "6", "7", "8", "9">>

\* fmt.Sprintf("%d", n) for n >= 0
RECURSIVE Itoa(_)
Itoa(n) ==
    IF n < 10 THEN <<DigitChars[n + 1]>>
    ELSE Itoa(n \div 10) \o <<DigitChars[(n % 10) + 1]>>

IsDigit(ch) == \E d \in 1..10 : DigitChars[d] = ch

DigitValue(ch) == (CHOOSE d \in 1..10 : DigitChars[d] = ch) - 1

\* the value of the longest run of digits s starts with, acc the value so far
RECURSIVE LeadingDigits(_, _)
LeadingDigits(s, acc) ==
    IF s = <<>> \/ ~IsDigit(Head(s)) THEN acc
    ELSE LeadingDigits(Tail(s), acc * 10 + DigitValue(Head(s)))

\* fmt.Sscanf(s, "%d", &v): an optional sign and at least one digit; what
\* follows the digits is left unread. ok is FALSE when Sscanf returns an
\* error, and then v keeps the value it had.
Sscanf(s) ==
    LET signed == s # <<>> /\ Head(s) \in {"+", "-"}
        body == IF signed THEN Tail(s) ELSE s
        ok == body # <<>> /\ IsDigit(Head(body))
        magnitude == LeadingDigits(body, 0)
    IN  [ok |-> ok,
         value |-> IF ~ok THEN 0
                   ELSE IF signed /\ Head(s) = "-" THEN 0 - magnitude
                   ELSE magnitude]

---------------------------------------------------------------------------
(* Endpoints: sigs.k8s.io/external-dns/endpoint.Endpoint as the handlers   *)
(* use it                                                                  *)

RecordIDProperty == <<"s", "i", "d">>     \* stands for "simply-record-id"

Endpoint(name, type, targets, ttl, ps) ==
    [dnsName |-> name, recordType |-> type, targets |-> targets,
     recordTTL |-> ttl, providerSpecific |-> ps]

\* the provider-specific list simplyToEndpoints attaches to a record
IDProperty(id) == <<[name |-> RecordIDProperty, value |-> Itoa(id)]>>

Range(seq) == {seq[i] : i \in DOMAIN seq}

\* the record ID updateEndpoint and deleteEndpoint read from an endpoint:
\* recordID starts at 0, the first property named simply-record-id is
\* scanned (the error of Sscanf is dropped) and the loop ends
recordIDOf(ep) ==
    LET ps == ep.providerSpecific
        named == {i \in DOMAIN ps : ps[i].name = RecordIDProperty}
    IN  IF named = {} THEN 0
        ELSE Sscanf(ps[CHOOSE i \in named : \A j \in named : i <= j].value).value

---------------------------------------------------------------------------
(* The diff: pkg/simply/client.go, calculateChanges and endpointsEqual *)

\* the key of an endpoint made of its name alone
KeyNameOnly(ep) == ep.dnsName \o <<"|">>

\* fmt.Sprintf("%s|%s", ep.DNSName, ep.RecordType)
Key(ep) == ep.dnsName \o <<"|">> \o ep.recordType

\* the last endpoint of eps with key k: a later assignment to the map
\* replaces an earlier one
LastWithKey(eps, k) ==
    eps[CHOOSE i \in DOMAIN eps :
            /\ Key(eps[i]) = k
            /\ \A j \in DOMAIN eps : Key(eps[j]) = k => j <= i]

currentMap(cur) ==
    [k \in {Key(ep) : ep \in Range(cur)} |-> LastWithKey(cur, k)]

desiredMap(des) ==
    [k \in {Key(ep) : ep \in Range(des)} |-> LastWithKey(des, k)]

\* endpointsEqual with the length test made on the map of a's targets
endpointsEqualMapLen(a, b) ==
    IF a.dnsName # b.dnsName \/ a.recordType # b.recordType THEN FALSE
    ELSE IF Cardinality(Range(a.targets)) # Len(b.targets) THEN FALSE
    ELSE IF \E t \in Range(b.targets) : t \notin Range(a.targets) THEN FALSE
    ELSE a.recordTTL = b.recordTTL

endpointsEqual(a, b) ==
    IF a.dnsName # b.dnsName \/ a.recordType # b.recordType THEN FALSE
    ELSE IF Len(a.targets) # Len(b.targets) THEN FALSE
    ELSE IF \E t \in Range(b.targets) : t \notin Range(a.targets) THEN FALSE
    ELSE a.recordTTL = b.recordTTL

\* calculateChanges whose updates keep the desired endpoint as it came
calculateChangesNoIDCopy(cur, des) ==
    LET cm == currentMap(cur)
        dm == desiredMap(des)
    IN  [creates |-> {dm[k] : k \in DOMAIN dm \ DOMAIN cm},
         updates |-> {dm[k] : k \in {x \in DOMAIN dm \cap DOMAIN cm :
                                        ~endpointsEqual(cm[x], dm[x])}},
         deletes |-> {cm[k] : k \in DOMAIN cm \ DOMAIN dm}]

\* calculateChanges that also creates the desired endpoint of a key whose
\* current endpoint differs
calculateChangesCreatesChanged(cur, des) ==
    LET cm == currentMap(cur)
        dm == desiredMap(des)
        changed == {x \in DOMAIN dm \cap DOMAIN cm : ~endpointsEqual(cm[x], dm[x])}
    IN  [creates |-> {dm[k] : k \in (DOMAIN dm \ DOMAIN cm) \cup changed},
         updates |-> {[dm[k] EXCEPT !.providerSpecific = cm[k].providerSpecific] :
                         k \in changed},
         deletes |-> {cm[k] : k \in DOMAIN cm \ DOMAIN dm}]

\* calculateChanges that also deletes the current endpoint of a key whose
\* desired endpoint differs
calculateChangesDeletesChanged(cur, des) ==
    LET cm == currentMap(cur)
        dm == desiredMap(des)
        changed == {x \in DOMAIN dm \cap DOMAIN cm : ~endpointsEqual(cm[x], dm[x])}
    IN  [creates |-> {dm[k] : k \in DOMAIN dm \ DOMAIN cm},
         updates |-> {[dm[k] EXCEPT !.providerSpecific = cm[k].providerSpecific] :
                         k \in changed},
         deletes |-> {cm[k] : k \in (DOMAIN cm \ DOMAIN dm) \cup changed}]

\* The three slices are filled while ranging over Go maps, whose order is
\* not fixed: each is modelled as the set of its elements, and whoever walks
\* one takes its elements in any order.
calculateChanges(cur, des) ==
    LET cm == currentMap(cur)
        dm == desiredMap(des)
    IN  [creates |-> {dm[k] : k \in DOMAIN dm \ DOMAIN cm},
         updates |-> {[dm[k] EXCEPT !.providerSpecific = cm[k].providerSpecific] :
                         k \in {x \in DOMAIN dm \cap DOMAIN cm :
                                   ~endpointsEqual(cm[x], dm[x])}},
         deletes |-> {cm[k] : k \in DOMAIN cm \ DOMAIN dm}]

---------------------------------------------------------------------------
(* The provider: the record store behind Client.ListAllRecords, AddRecord, *)
(* UpdateRecord and DeleteRecord (pkg/simply/client.go)                    *)

Record(id, type, host, data, ttl, domain) ==
    [id |-> id, type |-> type, host |-> host, data |-> data, ttl |-> ttl,
     domain |-> domain]

\* a record with this ID exists in this domain
RemoteHas(st, id, domain) ==
    \E i \in DOMAIN st : st[i].id = id /\ st[i].domain = domain

\* POST /2/record_add: the provider stores the record under a new ID
RemoteAdd(st, rec, id) == Append(st, [rec EXCEPT !.id = id])

\* POST /2/record_update: the record with rec.ID in rec.Domain is replaced
RemoteUpdate(st, rec) ==
    [i \in DOMAIN st |->
        IF st[i].id = rec.id /\ st[i].domain = rec.domain THEN rec ELSE st[i]]

\* POST /2/record_delete: the record with this ID in this domain is removed
RemoteDelete(st, id, domain) ==
    LET Keep(r) == ~(r.id = id /\ r.domain = domain)
    IN  SelectSeq(st, Keep)

\* one remote call as the log of the pass keeps it; name is the DNS name of
\* the endpoint the call was made for
Call(op, ok, name, rec) == [op |-> op, ok |-> ok, name |-> name, rec |-> rec]

NoRecord == Record(0, EmptyString, EmptyString, EmptyString, 0, EmptyString)

---------------------------------------------------------------------------
(* The diff-based handler: pkg/simply/client.go, lines 419-796 *)

\* Handler.DomainFilter, the configured filter
DomainFilter == <<<<"e", ".", "c">>>>

\* what Client.ListDomains answers with
RemoteDomains == <<<<"e", ".", "c">>>>

simplyToEndpoints(records) ==
    [i \in DOMAIN records |->
        Endpoint(IF records[i].host = <<"@">> \/ records[i].host = EmptyString
                 THEN records[i].domain
                 ELSE records[i].host \o <<Dot>> \o records[i].domain,
                 records[i].type, <<records[i].data>>, records[i].ttl,
                 IDProperty(records[i].id))]

filterEndpoints(endpoints) ==
    LET Passes(ep) == \E i \in DOMAIN DomainFilter : HasSuffix(ep.dnsName, DomainFilter[i])
    IN  SelectSeq(endpoints, Passes)

\* the body of a successful GET /records
GetRecordsBody(st) ==
    IF Len(DomainFilter) > 0 THEN filterEndpoints(simplyToEndpoints(st))
    ELSE simplyToEndpoints(st)

\* The result of one of deleteEndpoint, updateEndpoint, createEndpoint: the
\* error returned ("" for nil), the remote calls issued, and the provider's
\* records afterwards. up says whether the provider is reachable.
Outcome(err, issued, st, id) == [err |-> err, issued |-> issued, store |-> st, nextID |-> id]

deleteEndpoint(ep, ds, st, id, up) ==
    LET p == ParseFQDN(ep.dnsName, ds)
        recordID == recordIDOf(ep)
        ok == up /\ RemoteHas(st, recordID, p.domain)
        rec == Record(recordID, EmptyString, EmptyString, EmptyString, 0, p.domain)
    IN  IF p.domain = EmptyString
        THEN Outcome("could not determine domain", <<>>, st, id)
        ELSE IF recordID = 0
        THEN Outcome("record ID not found", <<>>, st, id)
        ELSE IF ~ok
        THEN Outcome("failed to delete record",
                     <<Call("DeleteRecord", FALSE, ep.dnsName, rec)>>, st, id)
        ELSE Outcome("", <<Call("DeleteRecord", TRUE, ep.dnsName, rec)>>,
                     RemoteDelete(st, recordID, p.domain), id)

updateEndpoint(ep, ds, st, id, up) ==
    LET p == ParseFQDN(ep.dnsName, ds)
        recordID == recordIDOf(ep)
        ok == up /\ RemoteHas(st, recordID, p.domain)
        rec == Record(recordID, ep.recordType, p.host, ep.targets[1],
                      ep.recordTTL, p.domain)
    IN  IF p.domain = EmptyString
        THEN Outcome("could not determine domain", <<>>, st, id)
        ELSE IF recordID = 0
        THEN Outcome("record ID not found", <<>>, st, id)
        ELSE IF Len(ep.targets) = 0
        THEN Outcome("no targets specified", <<>>, st, id)
        ELSE IF ~ok
        THEN Outcome("failed to update record",
                     <<Call("UpdateRecord", FALSE, ep.dnsName, rec)>>, st, id)
        ELSE Outcome("", <<Call("UpdateRecord", TRUE, ep.dnsName, rec)>>,
                     RemoteUpdate(st, rec), id)

\* the loop of createEndpoint from target i on; failAt is the target whose
\* AddRecord fails (0: none does)
RECURSIVE AddTargets(_, _, _, _, _, _, _)
AddTargets(ep, p, i, failAt, st, id, issued) ==
    IF i > Len(ep.targets) THEN Outcome("", issued, st, id)
    ELSE LET rec == Record(0, ep.recordType, p.host, ep.targets[i],
                           ep.recordTTL, p.domain)
         IN  IF i = failAt
             THEN Outcome("failed to add record",
                          Append(issued, Call("AddRecord", FALSE, ep.dnsName, rec)),
                          st, id)
             ELSE AddTargets(ep, p, i + 1, failAt, RemoteAdd(st, rec, id), id + 1,
                             Append(issued, Call("AddRecord", TRUE, ep.dnsName,
                                                 [rec EXCEPT !.id = id])))

\* the loop of createEndpoint going on to the next target after a failed
\* AddRecord, and returning the error at the end
RECURSIVE AddTargetsKeepGoing(_, _, _, _, _, _, _)
AddTargetsKeepGoing(ep, p, i, failAt, st, id, issued) ==
    IF i > Len(ep.targets)
    THEN Outcome(IF failAt \in 1..Len(ep.targets) THEN "failed to add record" ELSE "",
                 issued, st, id)
    ELSE LET rec == Record(0, ep.recordType, p.host, ep.targets[i],
                           ep.recordTTL, p.domain)
         IN  IF i = failAt
             THEN AddTargetsKeepGoing(ep, p, i + 1, failAt, st, id,
                          Append(issued, Call("AddRecord", FALSE, ep.dnsName, rec)))
             ELSE AddTargetsKeepGoing(ep, p, i + 1, failAt, RemoteAdd(st, rec, id),
                             id + 1,
                             Append(issued, Call("AddRecord", TRUE, ep.dnsName,
                                                 [rec EXCEPT !.id = id])))

createEndpointKeepGoing(ep, ds, st, id, failAt) ==
    LET p == ParseFQDN(ep.dnsName, ds)
    IN  IF p.domain = EmptyString
        THEN Outcome("could not determine domain", <<>>, st, id)
        ELSE AddTargetsKeepGoing(ep, p, 1, failAt, st, id, <<>>)

\* createEndpoint adding a record for the first target only
createEndpointFirstTarget(ep, ds, st, id, failAt) ==
    LET p == ParseFQDN(ep.dnsName, ds)
        first == [ep EXCEPT !.targets = SubSeq(@, 1, 1)]
    IN  IF p.domain = EmptyString
        THEN Outcome("could not determine domain", <<>>, st, id)
        ELSE AddTargets(first, p, 1, failAt, st, id, <<>>)

createEndpoint(ep, ds, st, id, failAt) ==
    LET p == ParseFQDN(ep.dnsName, ds)
    IN  IF p.domain = EmptyString
        THEN Outcome("could not determine domain", <<>>, st, id)
        ELSE AddTargets(ep, p, 1, failAt, st, id, <<>>)

\* ApplyChanges with the creates applied first, then updates, then deletes
applyPhaseCreatesFirst(pend) ==
    IF pend.creates # {} THEN "creates"
    ELSE IF pend.updates # {} THEN "updates"
    ELSE IF pend.deletes # {} THEN "deletes"
    ELSE "finish"

\* the loop ApplyChanges is in: it applies all deletes, then all updates,
\* then all creates, then answers
applyPhase(pend) ==
    IF pend.deletes # {} THEN "deletes"
    ELSE IF pend.updates # {} THEN "updates"
    ELSE IF pend.creates # {} THEN "creates"
    ELSE "finish"

NoResponse == [status |-> 0, error |-> ""]

NothingPending == [creates |-> {}, updates |-> {}, deletes |-> {}]

HandlerIdle ==
    /\ store = <<>>
    /\ store0 = <<>>
    /\ nextID = 1
    /\ managedDomains = <<>>
    /\ wanted = <<>>
    /\ fetched = <<>>
    /\ pc = "off"
    /\ localDomains = <<>>
    /\ pending = NothingPending
    /\ calls = <<>>
    /\ response = NoResponse

NoRequest == [create |-> <<>>, updateOld |-> <<>>, updateNew |-> <<>>, delete |-> <<>>]

NoCursor == [created |-> 0, updated |-> 0, deleted |-> 0]

ArrayIdle == arrayReq = NoRequest /\ recordMap = <<>> /\ cursor = NoCursor

\* GET /records: GetRecords. Client.ListAllRecords lists the domains and the
\* records of each of them without reading or writing the handler's cached
\* domains; any of its listings may fail, and the handler then answers 500.
GetRecords ==
    /\ pc = "start"
    /\ \E up \in BOOLEAN :
        /\ calls' = Append(calls, Call("ListAllRecords", up, EmptyString, NoRecord))
        /\ IF up
           THEN /\ fetched' = GetRecordsBody(store)
                /\ pc' = "fetched"
                /\ response' = response
           ELSE /\ fetched' = fetched
                /\ pc' = "done"
                /\ response' = [status |-> 500, error |-> "Failed to list records"]
    /\ UNCHANGED <<store, store0, nextID, managedDomains, wanted, localDomains,
                   pending>>
    /\ UNCHANGED <<parseVars, diffVars, arrayVars, adjustVars, raceVars>>

\* the endpoints eps with the provider-specific properties of those at the
\* positions which left out
StripIDs(eps, which) ==
    [i \in DOMAIN eps |->
        IF i \in which THEN [eps[i] EXCEPT !.providerSpecific = <<>>] ELSE eps[i]]

\* changes.CurrentRecords of a request: the caller sends back what GET
\* /records answered, or leaves out the provider-specific properties of the
\* first endpoint, or of all
RequestCurrents(f) ==
    {f, StripIDs(f, {1} \cap DOMAIN f), StripIDs(f, DOMAIN f)}

\* ApplyChanges with a getDomains that calls ListDomains whatever the cache
\* holds
ApplyChangesBeginAlwaysLists ==
    /\ pc = "fetched"
    /\ \E decoded \in BOOLEAN, up \in BOOLEAN, cur \in RequestCurrents(fetched) :
        IF ~decoded
        THEN /\ response' = [status |-> 400, error |-> "Failed to decode request"]
             /\ pc' = "done"
             /\ UNCHANGED <<managedDomains, localDomains, pending, calls,
                            current, desired>>
        ELSE IF ~up
        THEN /\ calls' = Append(calls, Call("ListDomains", FALSE, EmptyString, NoRecord))
             /\ response' = [status |-> 500, error |-> "Failed to get domains"]
             /\ pc' = "done"
             /\ UNCHANGED <<managedDomains, localDomains, pending, current, desired>>
        ELSE /\ calls' = Append(calls, Call("ListDomains", TRUE, EmptyString, NoRecord))
             /\ managedDomains' = RemoteDomains
             /\ localDomains' = RemoteDomains
             /\ current' = cur
             /\ desired' = wanted
             /\ pending' = calculateChanges(cur, wanted)
             /\ pc' = "apply"
             /\ response' = response
    /\ UNCHANGED <<store, store0, nextID, wanted, fetched, changes>>
    /\ UNCHANGED <<parseVars, arrayVars, adjustVars, raceVars>>

\* POST /records, up to the first loop of ApplyChanges: the body is decoded,
\* getDomains answers from the cache or calls ListDomains and fills the
\* cache, calculateChanges computes the three lists.
ApplyChangesBegin ==
    /\ pc = "fetched"
    /\ \E decoded \in BOOLEAN, up \in BOOLEAN, cur \in RequestCurrents(fetched) :
        IF ~decoded
        THEN /\ response' = [status |-> 400, error |-> "Failed to decode request"]
             /\ pc' = "done"
             /\ UNCHANGED <<managedDomains, localDomains, pending, calls,
                            current, desired>>
        ELSE IF Len(managedDomains) > 0
        THEN /\ up
             /\ localDomains' = managedDomains
             /\ current' = cur
             /\ desired' = wanted
             /\ pending' = calculateChanges(cur, wanted)
             /\ pc' = "apply"
             /\ UNCHANGED <<managedDomains, calls, response>>
        ELSE IF ~up
        THEN /\ calls' = Append(calls, Call("ListDomains", FALSE, EmptyString, NoRecord))
             /\ response' = [status |-> 500, error |-> "Failed to get domains"]
             /\ pc' = "done"
             /\ UNCHANGED <<managedDomains, localDomains, pending, current, desired>>
        ELSE /\ calls' = Append(calls, Call("ListDomains", TRUE, EmptyString, NoRecord))
             /\ managedDomains' = RemoteDomains
             /\ localDomains' = RemoteDomains
             /\ current' = cur
             /\ desired' = wanted
             /\ pending' = calculateChanges(cur, wanted)
             /\ pc' = "apply"
             /\ response' = response
    /\ UNCHANGED <<store, store0, nextID, wanted, fetched, changes>>
    /\ UNCHANGED <<parseVars, arrayVars, adjustVars, raceVars>>

\* what ApplyChanges does with the outcome of one endpoint: on an error it
\* answers 500 with the error and returns
Applied(out, left) ==
    /\ calls' = calls \o out.issued
    /\ store' = out.store
    /\ nextID' = out.nextID
    /\ IF out.err # ""
       THEN /\ response' = [status |-> 500, error |-> out.err]
            /\ pc' = "done"
            /\ pending' = pending
       ELSE /\ response' = response
            /\ pc' = pc
            /\ pending' = left
    /\ UNCHANGED <<store0, managedDomains, wanted, fetched, localDomains>>
    /\ UNCHANGED <<parseVars, diffVars, arrayVars, adjustVars, raceVars>>

\* one turn of the loop over deletes
ApplyDelete ==
    /\ pc = "apply"
    /\ applyPhase(pending) = "deletes"
    /\ \E ep \in pending.deletes, up \in BOOLEAN :
        Applied(deleteEndpoint(ep, localDomains, store, nextID, up),
                [pending EXCEPT !.deletes = @ \ {ep}])

\* one turn of the loop over updates
ApplyUpdate ==
    /\ pc = "apply"
    /\ applyPhase(pending) = "updates"
    /\ \E ep \in pending.updates, up \in BOOLEAN :
        Applied(updateEndpoint(ep, localDomains, store, nextID, up),
                [pending EXCEPT !.updates = @ \ {ep}])

\* one turn of the loop over creates
ApplyCreate ==
    /\ pc = "apply"
    /\ applyPhase(pending) = "creates"
    /\ \E ep \in pending.creates : \E failAt \in 0..Len(ep.targets) :
        Applied(createEndpoint(ep, localDomains, store, nextID, failAt),
                [pending EXCEPT !.creates = @ \ {ep}])

\* the end of ApplyChanges: every loop is through
ApplyChangesEnd ==
    /\ pc = "apply"
    /\ applyPhase(pending) = "finish"
    /\ response' = [status |-> 200, error |-> ""]
    /\ pc' = "done"
    /\ UNCHANGED <<store, store0, nextID, managedDomains, wanted, fetched,
                   localDomains, pending, calls>>
    /\ UNCHANGED <<parseVars, diffVars, arrayVars, adjustVars, raceVars>>

---------------------------------------------------------------------------
(* The array-based handler: pkg/webhook/handler.go, lines 1-372, with the  *)
(* client of pkg/simply/client.go, lines 208-417                           *)

\* strings.Split(s, "."): cur is the part being read, parts those read
RECURSIVE SplitFrom(_, _, _)
SplitFrom(s, cur, parts) ==
    IF s = <<>> THEN Append(parts, cur)
    ELSE IF Head(s) = Dot THEN SplitFrom(Tail(s), EmptyString, Append(parts, cur))
    ELSE SplitFrom(Tail(s), Append(cur, Head(s)), parts)

Split(s) == SplitFrom(s, EmptyString, <<>>)

\* Handler.extractDomain: the last two parts of the name
extractDomain(dnsName) ==
    LET parts == Split(dnsName)
    IN  IF Len(parts) < 2 THEN [err |-> "invalid DNS name", domain |-> EmptyString]
        ELSE [err |-> "",
              domain |-> Join(SubSeq(parts, Len(parts) - 1, Len(parts)))]

DefaultTTL == 3600

\* Handler.DomainFilter: main hands it the managed domains, here e.c and its
\* child zone d.e.c
ArrayDomainFilter == <<<<"e", ".", "c">>, <<"d", ".", "e", ".", "c">>>>

\* fmt.Sprintf("%s:%s", dnsName, recordType)
MapKey(dnsName, type) == dnsName \o <<":">> \o type

\* the DNS name ApplyChanges builds for a listed record
ListedName(rec) ==
    IF rec.host = <<"@">> \/ rec.host = EmptyString THEN rec.domain
    ELSE rec.host \o <<Dot>> \o rec.domain

\* Client.ListRecords(domain) answered by the provider
ListRecords(st, domain) ==
    LET InDomain(r) == r.domain = domain
    IN  SelectSeq(st, InDomain)

\* the records of every domain of the filter, in the order listed
RECURSIVE ListedRecords(_, _)
ListedRecords(st, filter) ==
    IF filter = <<>> THEN <<>>
    ELSE ListRecords(st, Head(filter)) \o ListedRecords(st, Tail(filter))

\* recordMap: a later record with the same key replaces an earlier one
BuildRecordMap(listed) ==
    [k \in {MapKey(ListedName(listed[i]), listed[i].type) : i \in DOMAIN listed} |->
        listed[CHOOSE i \in DOMAIN listed :
                  /\ MapKey(ListedName(listed[i]), listed[i].type) = k
                  /\ \A j \in DOMAIN listed :
                        MapKey(ListedName(listed[j]), listed[j].type) = k => j <= i]]

\* the loop of the array-based createEndpoint from target i on
RECURSIVE ArrayAddTargets(_, _, _, _, _, _, _, _)
ArrayAddTargets(ep, domain, ttl, i, failAt, st, id, issued) ==
    IF i > Len(ep.targets) THEN Outcome("", issued, st, id)
    ELSE LET rec == Record(0, ep.recordType, ep.dnsName, ep.targets[i], ttl, domain)
         IN  IF i = failAt
             THEN Outcome("failed to add record",
                          Append(issued, Call("AddRecord", FALSE, ep.dnsName, rec)),
                          st, id)
             ELSE ArrayAddTargets(ep, domain, ttl, i + 1, failAt,
                                  RemoteAdd(st, rec, id), id + 1,
                                  Append(issued, Call("AddRecord", TRUE, ep.dnsName,
                                                      [rec EXCEPT !.id = id])))

ArrayCreateEndpoint(ep, st, id, failAt) ==
    LET d == extractDomain(ep.dnsName)
        ttl == IF ep.recordTTL = 0 THEN DefaultTTL ELSE ep.recordTTL
    IN  IF d.err # "" THEN Outcome(d.err, <<>>, st, id)
        ELSE ArrayAddTargets(ep, d.domain, ttl, 1, failAt, st, id, <<>>)

ArrayUpdateEndpoint(ep, recordID, st, id, up) ==
    LET d == extractDomain(ep.dnsName)
        ttl == IF ep.recordTTL = 0 THEN DefaultTTL ELSE ep.recordTTL
        rec == Record(recordID, ep.recordType, ep.dnsName, ep.targets[1], ttl,
                      d.domain)
        ok == up /\ RemoteHas(st, recordID, d.domain)
    IN  IF d.err # "" THEN Outcome(d.err, <<>>, st, id)
        ELSE IF Len(ep.targets) = 0
        THEN Outcome("no targets specified for update", <<>>, st, id)
        ELSE IF ~ok
        THEN Outcome("failed to update record",
                     <<Call("UpdateRecord", FALSE, ep.dnsName, rec)>>, st, id)
        ELSE Outcome("", <<Call("UpdateRecord", TRUE, ep.dnsName, rec)>>,
                     RemoteUpdate(st, rec), id)

\* ep.Targets[0] of an endpoint without targets is an index out of range
ArrayDeleteEndpoint(ep, recordID, st, id, up) ==
    LET d == extractDomain(ep.dnsName)
        rec == Record(recordID, ep.recordType, ep.dnsName, ep.targets[1],
                      ep.recordTTL, d.domain)
        ok == up /\ RemoteHas(st, recordID, d.domain)
    IN  IF d.err # "" THEN Outcome(d.err, <<>>, st, id)
        ELSE IF Len(ep.targets) = 0
        THEN Outcome("panic: index out of range", <<>>, st, id)
        ELSE IF ~ok
        THEN Outcome("failed to delete record",
                     <<Call("DeleteRecord", FALSE, ep.dnsName, rec)>>, st, id)
        ELSE Outcome("", <<Call("DeleteRecord", TRUE, ep.dnsName, rec)>>,
                     RemoteDelete(st, recordID, d.domain), id)

\* the change detection of the update loop
hasChanges(oldEp, newEp) ==
    IF oldEp.recordType # newEp.recordType THEN TRUE
    ELSE IF oldEp.recordTTL # newEp.recordTTL THEN TRUE
    ELSE \E j \in DOMAIN oldEp.targets :
            j > Len(newEp.targets) \/ oldEp.targets[j] # newEp.targets[j]

\* the loop the array-based ApplyChanges is in: creates, then updates, then
\* deletes, then the answer
arrayPhase(req, cur) ==
    IF cur.created < Len(req.create) THEN "creates"
    ELSE IF cur.updated < Len(req.updateNew) THEN "updates"
    ELSE IF cur.deleted < Len(req.delete) THEN "deletes"
    ELSE "finish"

\* the endpoints the array-based GetRecords appends for the domains of the
\* filter from the i-th on: one endpoint for each record listed, nothing for
\* a domain whose listing failed
RECURSIVE ListedEndpoints(_, _, _, _)
ListedEndpoints(st, filter, failed, i) ==
    IF i > Len(filter) THEN <<>>
    ELSE LET records == ListRecords(st, filter[i])
             eps == [n \in DOMAIN records |->
                        Endpoint(ListedName(records[n]), records[n].type,
                                 <<records[n].data>>, records[n].ttl, <<>>)]
         IN  (IF i \in failed THEN <<>> ELSE eps)
                \o ListedEndpoints(st, filter, failed, i + 1)

\* GET /records of the array-based handler: ListRecords is called for every
\* domain of the filter; the listings of the domains in failed fail
ArrayGetRecords ==
    /\ pc = "start"
    /\ \E failed \in SUBSET (DOMAIN ArrayDomainFilter) :
        /\ calls' = calls \o [i \in DOMAIN ArrayDomainFilter |->
                                Call("ListRecords", i \notin failed,
                                     ArrayDomainFilter[i], NoRecord)]
        /\ fetched' = ListedEndpoints(store, ArrayDomainFilter, failed, 1)
    /\ response' = [status |-> 200, error |-> ""]
    /\ pc' = "done"
    /\ UNCHANGED <<store, store0, nextID, managedDomains, wanted, localDomains,
                   pending>>
    /\ UNCHANGED arrayVars
    /\ UNCHANGED <<parseVars, diffVars, adjustVars, raceVars>>

\* POST /records up to the first loop: the body is decoded and the records
\* of every domain of the filter are listed into recordMap
ArrayApplyChangesBegin ==
    /\ pc = "start"
    /\ \E decoded \in BOOLEAN, failAt \in 0..Len(ArrayDomainFilter) :
        LET listed(n) == [i \in 1..n |->
                            Call("ListRecords", TRUE, ArrayDomainFilter[i], NoRecord)]
        IN  IF ~decoded
            THEN /\ failAt = 0
                 /\ response' = [status |-> 400, error |-> "Failed to decode request"]
                 /\ pc' = "done"
                 /\ UNCHANGED <<recordMap, calls>>
            ELSE IF failAt > 0
            THEN /\ calls' = calls \o listed(failAt - 1)
                                \o <<Call("ListRecords", FALSE,
                                          ArrayDomainFilter[failAt], NoRecord)>>
                 /\ response' = [status |-> 500, error |-> "Failed to list records"]
                 /\ pc' = "done"
                 /\ UNCHANGED recordMap
            ELSE /\ calls' = calls \o listed(Len(ArrayDomainFilter))
                 /\ recordMap' = BuildRecordMap(ListedRecords(store, ArrayDomainFilter))
                 /\ pc' = "apply"
                 /\ response' = response
    /\ UNCHANGED <<store, store0, nextID, managedDomains, wanted, fetched,
                   localDomains, pending, arrayReq, cursor>>
    /\ UNCHANGED <<parseVars, diffVars, adjustVars, raceVars>>

\* what the array-based ApplyChanges does with the outcome of one endpoint
ArrayApplied(out, cur) ==
    /\ calls' = calls \o out.issued
    /\ store' = out.store
    /\ nextID' = out.nextID
    /\ IF out.err = "panic: index out of range"
       THEN /\ response' = [status |-> 0, error |-> out.err]
            /\ pc' = "done"
            /\ cursor' = cursor
       ELSE IF out.err # ""
       THEN /\ response' = [status |-> 500, error |-> out.err]
            /\ pc' = "done"
            /\ cursor' = cursor
       ELSE /\ response' = response
            /\ pc' = pc
            /\ cursor' = cur
    /\ UNCHANGED <<store0, managedDomains, wanted, fetched, localDomains, pending,
                   arrayReq, recordMap>>
    /\ UNCHANGED <<parseVars, diffVars, adjustVars, raceVars>>

\* one turn of the loop over changes.Create
ArrayCreate ==
    /\ pc = "apply"
    /\ arrayPhase(arrayReq, cursor) = "creates"
    /\ LET ep == arrayReq.create[cursor.created + 1]
       IN  \E failAt \in 0..Len(ep.targets) :
              ArrayApplied(ArrayCreateEndpoint(ep, store, nextID, failAt),
                           [cursor EXCEPT !.created = @ + 1])

\* one turn of the loop over changes.UpdateNew: changes.UpdateOld[i] of a
\* shorter UpdateOld is an index out of range
ArrayUpdate ==
    /\ pc = "apply"
    /\ arrayPhase(arrayReq, cursor) = "updates"
    /\ LET i == cursor.updated + 1
           newEp == arrayReq.updateNew[i]
           key == MapKey(newEp.dnsName, newEp.recordType)
           next == [cursor EXCEPT !.updated = @ + 1]
       IN  \E up \in BOOLEAN :
              IF i > Len(arrayReq.updateOld)
              THEN up /\ ArrayApplied(Outcome("panic: index out of range", <<>>,
                                              store, nextID), next)
              ELSE IF ~hasChanges(arrayReq.updateOld[i], newEp)
              THEN up /\ ArrayApplied(Outcome("", <<>>, store, nextID), next)
              ELSE IF key \notin DOMAIN recordMap
              THEN up /\ ArrayApplied(Outcome("Record not found", <<>>, store, nextID),
                                      next)
              ELSE ArrayApplied(ArrayUpdateEndpoint(newEp, recordMap[key].id, store,
                                                    nextID, up), next)

\* one turn of the loop over changes.Delete
ArrayDelete ==
    /\ pc = "apply"
    /\ arrayPhase(arrayReq, cursor) = "deletes"
    /\ LET ep == arrayReq.delete[cursor.deleted + 1]
           key == MapKey(ep.dnsName, ep.recordType)
           next == [cursor EXCEPT !.deleted = @ + 1]
       IN  \E up \in BOOLEAN :
              IF key \notin DOMAIN recordMap
              THEN up /\ ArrayApplied(Outcome("", <<>>, store, nextID), next)
              ELSE ArrayApplied(ArrayDeleteEndpoint(ep, recordMap[key].id, store,
                                                    nextID, up), next)

\* the end of the array-based ApplyChanges
ArrayApplyChangesEnd ==
    /\ pc = "apply"
    /\ arrayPhase(arrayReq, cursor) = "finish"
    /\ response' = [status |-> 204, error |-> ""]
    /\ pc' = "done"
    /\ UNCHANGED <<store, store0, nextID, managedDomains, wanted, fetched,
                   localDomains, pending, calls>>
    /\ UNCHANGED arrayVars
    /\ UNCHANGED <<parseVars, diffVars, adjustVars, raceVars>>

---------------------------------------------------------------------------
(* POST /adjustendpoints: pkg/webhook/handler.go, lines 238-264 *)

\* the letters of the model that have an upper and a lower case
CasePairs == {<<"C", "c">>, <<"E", "e">>, <<"H", "h">>}

\* strings.ToLower, one character
ToLowerChar(ch) ==
    IF \E cp \in CasePairs : cp[1] = ch
    THEN (CHOOSE cp \in CasePairs : cp[1] = ch)[2]
    ELSE ch

\* strings.ToLower
ToLower(s) == [k \in DOMAIN s |-> ToLowerChar(s[k])]

\* a normalization that removes the trailing dot and keeps the case
NormalizeKeepCase(name) == TrimSuffix(name, <<Dot>>)

\* ep.DNSName = strings.ToLower(strings.TrimSuffix(ep.DNSName, "."))
Normalize(name) == ToLower(TrimSuffix(name, <<Dot>>))

NoAdjustResponse == [status |-> 0, body |-> <<>>]

AdjustIdle == adjustReq = <<>> /\ adjustResp = NoAdjustResponse

\* POST /adjustendpoints: a body that does not decode is answered 400; else
\* the name of every endpoint is normalized in place and the endpoints are
\* sent back
AdjustEndpoints ==
    /\ adjustResp = NoAdjustResponse
    /\ \E decoded \in BOOLEAN :
        adjustResp' =
            IF ~decoded THEN [status |-> 400, body |-> <<>>]
            ELSE [status |-> 200,
                  body |-> [i \in DOMAIN adjustReq |->
                              [adjustReq[i] EXCEPT !.dnsName = Normalize(@)]]]
    /\ UNCHANGED adjustReq
    /\ UNCHANGED <<parseVars, diffVars, handlerVars, arrayVars, raceVars>>

---------------------------------------------------------------------------
(* getDomains of the diff-based handler, pkg/simply/client.go 684-700,     *)
(* called by ApplyChanges requests that run concurrently: net/http serves  *)
(* every request on a goroutine of its own and the handler has no lock     *)

\* what Client.ListDomains answers the concurrent requests with
ProviderDomains == <<<<"e", ".", "c">>, <<"d", ".", "e", ".", "c">>>>

\* a request that has not begun: at is the statement it is at, got what
\* ListDomains returned to it, i the index of its fill loop, domains the
\* array of the slice getDomains returned to it, seen the list it resolved
\* names against
NewRequest ==
    [at |-> "check", got |-> <<>>, i |-> 0, domains |-> 0, seen |-> <<>>,
     err |-> ""]

RaceIdle == heap = <<>> /\ managedSlice = 0 /\ requests = <<>>

\* len(h.managedDomains), of the nil slice too
CachedLen == IF managedSlice = 0 THEN 0 ELSE Len(heap[managedSlice])

\* if len(h.managedDomains) > 0 { return h.managedDomains, nil }
GetDomainsCheck(r) ==
    /\ requests[r].at = "check"
    /\ requests' = [requests EXCEPT ![r] =
                      IF CachedLen > 0
                      THEN [@ EXCEPT !.at = "resolve", !.domains = managedSlice]
                      ELSE [@ EXCEPT !.at = "list"]]
    /\ UNCHANGED <<heap, managedSlice>>
    /\ UNCHANGED <<parseVars, diffVars, handlerVars, arrayVars, adjustVars>>

\* domains, err := h.Client.ListDomains(); an error is returned
GetDomainsList(r) ==
    /\ requests[r].at = "list"
    /\ \E up \in BOOLEAN :
        requests' = [requests EXCEPT ![r] =
                        IF up THEN [@ EXCEPT !.at = "make", !.got = ProviderDomains]
                        ELSE [@ EXCEPT !.at = "done",
                                       !.err = "Failed to get domains"]]
    /\ UNCHANGED <<heap, managedSlice>>
    /\ UNCHANGED <<parseVars, diffVars, handlerVars, arrayVars, adjustVars>>

\* h.managedDomains = make([]string, len(domains)): a new array of empty
\* strings becomes the cached slice
GetDomainsMake(r) ==
    /\ requests[r].at = "make"
    /\ heap' = Append(heap, [k \in 1..Len(requests[r].got) |-> EmptyString])
    /\ managedSlice' = Len(heap) + 1
    /\ requests' = [requests EXCEPT
                      ![r].at = IF Len(requests[r].got) = 0 THEN "return" ELSE "fill",
                      ![r].i = 1]
    /\ UNCHANGED <<parseVars, diffVars, handlerVars, arrayVars, adjustVars>>

\* h.managedDomains[i] = d.Name: one turn of the loop; the slice is read
\* from the handler at every turn
GetDomainsFill(r) ==
    /\ requests[r].at = "fill"
    /\ LET i == requests[r].i
       IN  /\ heap' = [heap EXCEPT ![managedSlice][i] = requests[r].got[i]]
           /\ requests' = [requests EXCEPT
                             ![r].at = IF i = Len(requests[r].got) THEN "return"
                                       ELSE "fill",
                             ![r].i = i + 1]
    /\ UNCHANGED managedSlice
    /\ UNCHANGED <<parseVars, diffVars, handlerVars, arrayVars, adjustVars>>

\* return h.managedDomains, nil
GetDomainsReturn(r) ==
    /\ requests[r].at = "return"
    /\ requests' = [requests EXCEPT ![r] =
                      [@ EXCEPT !.at = "resolve", !.domains = managedSlice]]
    /\ UNCHANGED <<heap, managedSlice>>
    /\ UNCHANGED <<parseVars, diffVars, handlerVars, arrayVars, adjustVars>>

\* ApplyChanges resolves the names of its endpoints: ParseFQDN ranges over
\* the slice getDomains returned, as the array holds it at that time
Resolve(r) ==
    /\ requests[r].at = "resolve"
    /\ requests' = [requests EXCEPT ![r] =
                      [@ EXCEPT !.at = "done",
                                !.seen = heap[requests[r].domains]]]
    /\ UNCHANGED <<heap, managedSlice>>
    /\ UNCHANGED <<parseVars, diffVars, handlerVars, arrayVars, adjustVars>>

---------------------------------------------------------------------------
(* The resolver on its own: every name and every list of known domains *)

\* the labels names are built from: e, and ne which ends with e
Label == {<<"e">>, <<"n", "e">>}

TopLabel == <<"c">>

\* well-formed DNS names of at most n labels, the last one the top label
Names(n) == {Join(p \o <<TopLabel>>) : p \in SeqsUpTo(Label, n - 1)}

\* what a caller hands in: a name, with or without the trailing dot
FqdnInputs == Names(MaxLabels) \cup {n \o <<Dot>> : n \in Names(MaxLabels)}

DomainLists == SeqsUpTo(Names(MaxLabels), MaxDomains)

NotParsed == [done |-> FALSE, host |-> EmptyString, domain |-> EmptyString]

NotCalculated == [done |-> FALSE, creates |-> {}, updates |-> {}, deletes |-> {}]

ParseIdle == fqdn = EmptyString /\ domains = <<>> /\ parsed = NotParsed

DiffIdle == current = <<>> /\ desired = <<>> /\ changes = NotCalculated

InitParse ==
    /\ fqdn \in FqdnInputs
    /\ domains \in DomainLists
    /\ parsed = NotParsed
    /\ DiffIdle
    /\ HandlerIdle
    /\ ArrayIdle
    /\ AdjustIdle
    /\ RaceIdle

CallParseFQDN ==
    /\ ~parsed.done
    /\ parsed' = [done |-> TRUE,
                  host |-> ParseFQDN(fqdn, domains).host,
                  domain |-> ParseFQDN(fqdn, domains).domain]
    /\ UNCHANGED <<fqdn, domains>>
    /\ UNCHANGED <<diffVars, handlerVars, arrayVars, adjustVars, raceVars>>

NextParse == CallParseFQDN

SpecParse == InitParse /\ [][NextParse]_vars

---------------------------------------------------------------------------
(* The diff on its own: every pair of endpoint lists *)

ExampleCom == <<"e", ".", "c">>

HostExampleCom == <<"h", ".", "e", ".", "c">>

TypeA == <<"A">>

TypeCNAME == <<"C", "N", "A", "M", "E">>

Target1 == <<"1">>

Target2 == <<"2">>

\* targets and TTL of the endpoints handed to the diff: one target, the same
\* target twice, two targets, and one target with another TTL
DiffShapes ==
    {[targets |-> <<Target1>>, ttl |-> 300],
     [targets |-> <<Target1, Target1>>, ttl |-> 300],
     [targets |-> <<Target1, Target2>>, ttl |-> 300],
     [targets |-> <<Target1>>, ttl |-> 600]}

\* the type, targets and TTL of each endpoint of a list
ShapeLists ==
    SeqsUpTo([type : {TypeA, TypeCNAME}, shape : DiffShapes], MaxEndpoints)

\* current endpoints are what GetRecords reported: the i-th carries the ID
\* of the i-th remote record
CurrentOf(c) ==
    [i \in DOMAIN c |->
        Endpoint(HostExampleCom, c[i].type, c[i].shape.targets,
                 c[i].shape.ttl, IDProperty(i))]

\* desired endpoints come from the caller: all without provider-specific
\* properties, or all with a record ID of the caller's own
DesiredOf(d, ps) ==
    [i \in DOMAIN d |->
        Endpoint(HostExampleCom, d[i].type, d[i].shape.targets,
                 d[i].shape.ttl, ps)]

InitDiff ==
    /\ current \in {CurrentOf(c) : c \in ShapeLists}
    /\ desired \in {DesiredOf(d, ps) :
                        d \in ShapeLists, ps \in {<<>>, IDProperty(9)}}
    /\ changes = NotCalculated
    /\ ParseIdle
    /\ HandlerIdle
    /\ ArrayIdle
    /\ AdjustIdle
    /\ RaceIdle

Calculated(cur, des) ==
    LET r == calculateChanges(cur, des)
    IN  [done |-> TRUE, creates |-> r.creates, updates |-> r.updates,
         deletes |-> r.deletes]

\* calculateChanges(current, desired)
CallCalculateChanges ==
    /\ ~changes.done
    /\ changes' = Calculated(current, desired)
    /\ UNCHANGED <<current, desired>>
    /\ UNCHANGED <<parseVars, handlerVars, arrayVars, adjustVars, raceVars>>

\* calculateChanges(S, S), S one of the two lists
CallCalculateChangesOnSame ==
    /\ ~changes.done
    /\ \E S \in {current, desired} :
        /\ current' = S
        /\ desired' = S
        /\ changes' = Calculated(S, S)
    /\ UNCHANGED <<parseVars, handlerVars, arrayVars, adjustVars, raceVars>>

NextDiff == CallCalculateChanges \/ CallCalculateChangesOnSame

SpecDiff == InitDiff /\ [][NextDiff]_vars

---------------------------------------------------------------------------
(* A reconciliation pass against the diff-based handler: the controller    *)
(* reads the current endpoints with GET /records and posts them with its   *)
(* desired endpoints to POST /records                                      *)

\* the records the provider may hold when the pass begins, all of host h of
\* e.c: two A records and a CNAME record
StoredRecords ==
    {Record(0, TypeA, <<"h">>, Target1, 300, ExampleCom),
     Record(0, TypeA, <<"h">>, Target2, 300, ExampleCom),
     Record(0, TypeCNAME, <<"h">>, Target1, 300, ExampleCom)}

\* the i-th record of the provider has ID i
InitialStores ==
    {[i \in DOMAIN st |-> [st[i] EXCEPT !.id = i]] :
        st \in SeqsUpTo(StoredRecords, MaxRecords)}

NotExampleCom == <<"n", "e", ".", "c">>

HostOtherOrg == <<"h", ".", "o">>

\* the endpoints the controller may desire: A and CNAME of h.e.c and A of the
\* apex e.c, each with one target, with two, or with another target and TTL,
\* and two names outside the managed domain
WantedEndpoints ==
    {Endpoint(k[1], k[2], sh.targets, sh.ttl, <<>>) :
        k \in {<<HostExampleCom, TypeA>>, <<HostExampleCom, TypeCNAME>>,
               <<ExampleCom, TypeA>>},
        sh \in {[targets |-> <<Target1>>, ttl |-> 300],
                [targets |-> <<Target1, Target2>>, ttl |-> 300],
                [targets |-> <<Target2>>, ttl |-> 600]}}
    \cup {Endpoint(NotExampleCom, TypeA, <<Target1>>, 300, <<>>),
          Endpoint(HostOtherOrg, TypeA, <<Target1>>, 300, <<>>)}

Init ==
    /\ store \in InitialStores
    /\ store0 = store
    /\ nextID = Len(store) + 1
    /\ managedDomains = <<>>
    /\ wanted \in SeqsUpTo(WantedEndpoints, MaxWanted)
    /\ fetched = <<>>
    /\ pc = "start"
    /\ localDomains = <<>>
    /\ pending = NothingPending
    /\ calls = <<>>
    /\ response = NoResponse
    /\ ParseIdle
    /\ DiffIdle
    /\ ArrayIdle
    /\ AdjustIdle
    /\ RaceIdle

Next ==
    \/ GetRecords
    \/ ApplyChangesBegin
    \/ ApplyDelete
    \/ ApplyUpdate
    \/ ApplyCreate
    \/ ApplyChangesEnd

Spec == Init /\ [][Next]_vars

---------------------------------------------------------------------------
(* Passes one after another: external-dns reconciles on a timer, each pass *)
(* a GET /records and a POST /records to the same server                   *)

\* the next pass begins: the server keeps its cached domains and the
\* provider its records; the controller desires what it desired
NextPass ==
    /\ pc = "done"
    /\ pc' = "start"
    /\ store0' = store
    /\ fetched' = <<>>
    /\ localDomains' = <<>>
    /\ pending' = NothingPending
    /\ calls' = <<>>
    /\ response' = NoResponse
    /\ current' = <<>>
    /\ desired' = <<>>
    /\ UNCHANGED <<store, nextID, managedDomains, wanted, changes>>
    /\ UNCHANGED <<parseVars, arrayVars, adjustVars, raceVars>>

\* the records the provider may hold when the first pass begins
PassRecords ==
    {Record(0, TypeA, <<"h">>, Target1, 300, ExampleCom),
     Record(0, TypeCNAME, <<"h">>, Target1, 300, ExampleCom)}

PassStores ==
    {[i \in DOMAIN st |-> [st[i] EXCEPT !.id = i]] :
        st \in SeqsUpTo(PassRecords, MaxRecords)}

\* the endpoints the controller may desire, all under the managed domain;
\* the last one leaves the TTL unspecified
PassEndpoints ==
    {Endpoint(HostExampleCom, TypeA, <<Target1>>, 300, <<>>),
     Endpoint(HostExampleCom, TypeA, <<Target1, Target2>>, 300, <<>>),
     Endpoint(HostExampleCom, TypeA, <<Target2>>, 600, <<>>),
     Endpoint(HostExampleCom, TypeCNAME, <<Target1>>, 300, <<>>),
     Endpoint(ExampleCom, TypeA, <<Target1>>, 0, <<>>)}

\* the controller desires one endpoint for each (name, recordType)
PassWanted ==
    {w \in SeqsUpTo(PassEndpoints, MaxWanted) :
        \A i, j \in DOMAIN w : Key(w[i]) = Key(w[j]) => i = j}

InitPasses ==
    /\ store \in PassStores
    /\ store0 = store
    /\ nextID = Len(store) + 1
    /\ managedDomains = <<>>
    /\ wanted \in PassWanted
    /\ fetched = <<>>
    /\ pc = "start"
    /\ localDomains = <<>>
    /\ pending = NothingPending
    /\ calls = <<>>
    /\ response = NoResponse
    /\ ParseIdle
    /\ DiffIdle
    /\ ArrayIdle
    /\ AdjustIdle
    /\ RaceIdle

NextPasses ==
    \/ GetRecords
    \/ ApplyChangesBegin
    \/ ApplyDelete
    \/ ApplyUpdate
    \/ ApplyCreate
    \/ ApplyChangesEnd
    \/ NextPass

\* a request that has begun is served to its end, and the timer fires again
SpecPasses == InitPasses /\ [][NextPasses]_vars /\ WF_vars(NextPasses)

---------------------------------------------------------------------------
(* A request to POST /adjustendpoints *)

\* the names of a request: h.e.c as it is, in upper case, with a trailing
\* dot, with both, and e.c with two trailing dots and with one in mixed case
AdjustNames ==
    {<<"h", ".", "e", ".", "c">>,
     <<"H", ".", "e", ".", "C">>,
     <<"h", ".", "e", ".", "c", ".">>,
     <<"H", ".", "E", ".", "C", ".">>,
     <<"e", ".", "c", ".", ".">>,
     <<"E", ".", "c", ".">>}

\* the endpoints of a request: every name as an A record with one target,
\* and as a CNAME record with two targets, no TTL and a record ID
AdjustInputs ==
    {Endpoint(n, TypeA, <<Target1>>, 300, <<>>) : n \in AdjustNames}
        \cup {Endpoint(n, TypeCNAME, <<Target1, Target2>>, 0, IDProperty(1)) :
                n \in AdjustNames}

InitAdjust ==
    /\ adjustReq \in SeqsUpTo(AdjustInputs, MaxAdjust)
    /\ adjustResp = NoAdjustResponse
    /\ ParseIdle
    /\ DiffIdle
    /\ HandlerIdle
    /\ ArrayIdle
    /\ RaceIdle

NextAdjust == AdjustEndpoints

SpecAdjust == InitAdjust /\ [][NextAdjust]_vars

---------------------------------------------------------------------------
(* ApplyChanges requests served concurrently by one Handler *)

InitRace ==
    /\ heap = <<>>
    /\ managedSlice = 0
    /\ requests = [r \in 1..MaxRequests |-> NewRequest]
    /\ ParseIdle
    /\ DiffIdle
    /\ HandlerIdle
    /\ ArrayIdle
    /\ AdjustIdle

NextRace ==
    \E r \in 1..MaxRequests :
        \/ GetDomainsCheck(r)
        \/ GetDomainsList(r)
        \/ GetDomainsMake(r)
        \/ GetDomainsFill(r)
        \/ GetDomainsReturn(r)
        \/ Resolve(r)

SpecRace == InitRace /\ [][NextRace]_vars

---------------------------------------------------------------------------
(* A request to the array-based handler *)

DevExampleCom == <<"d", ".", "e", ".", "c">>

ApiDevExampleCom == <<"a", ".", "d", ".", "e", ".", "c">>

\* the provider holds an A record of h.e.c, a CNAME record of it, both,
\* nothing, or an A record of a.d.e.c in the child zone
ArrayStores ==
    {<<>>,
     <<Record(1, TypeA, <<"h">>, Target1, 300, ExampleCom)>>,
     <<Record(1, TypeCNAME, <<"h">>, Target1, 300, ExampleCom)>>,
     <<Record(1, TypeA, <<"h">>, Target1, 300, ExampleCom),
       Record(2, TypeCNAME, <<"h">>, Target2, 300, ExampleCom)>>,
     <<Record(1, TypeA, <<"a">>, Target1, 300, DevExampleCom)>>}

\* the endpoints of a request: an A record of h.e.c, the same with a second
\* target and no TTL, and a CNAME record of h.e.c
ArrayEndpoints ==
    {Endpoint(HostExampleCom, TypeA, <<Target1>>, 300, <<>>),
     Endpoint(HostExampleCom, TypeA, <<Target1, Target2>>, 0, <<>>),
     Endpoint(HostExampleCom, TypeCNAME, <<Target1>>, 300, <<>>)}

\* an A record of a.d.e.c, a name of the child zone
ChildZoneEndpoint == Endpoint(ApiDevExampleCom, TypeA, <<Target1>>, 300, <<>>)

\* the single-target endpoints of h.e.c, as external-dns sends them back in
\* updateOld and delete
ArrayOldEndpoints == {ep \in ArrayEndpoints : Len(ep.targets) = 1}

ArrayLists == SeqsUpTo(ArrayEndpoints, MaxChanges)

\* an A record of h.e.c with two targets and the TTL of the single-target one
TwoTargetEndpoint == Endpoint(HostExampleCom, TypeA, <<Target1, Target2>>, 300, <<>>)

\* an A record of h.e.c without targets
NoTargetEndpoint == Endpoint(HostExampleCom, TypeA, <<>>, 300, <<>>)

InitArray ==
    /\ store \in ArrayStores
    /\ store0 = store
    /\ nextID = Len(store) + 1
    /\ arrayReq \in [create : SeqsUpTo(ArrayEndpoints \cup {ChildZoneEndpoint}, MaxChanges),
                     updateOld : SeqsUpTo(ArrayOldEndpoints \cup {NoTargetEndpoint},
                                          MaxChanges),
                     updateNew : SeqsUpTo(ArrayEndpoints \cup {TwoTargetEndpoint},
                                          MaxChanges),
                     delete : SeqsUpTo(ArrayOldEndpoints
                                          \cup {ChildZoneEndpoint, NoTargetEndpoint},
                                       MaxChanges)]
    /\ recordMap = <<>>
    /\ cursor = NoCursor
    /\ pc = "start"
    /\ calls = <<>>
    /\ response = NoResponse
    /\ managedDomains = <<>>
    /\ wanted = <<>>
    /\ fetched = <<>>
    /\ localDomains = <<>>
    /\ pending = NothingPending
    /\ ParseIdle
    /\ DiffIdle
    /\ AdjustIdle
    /\ RaceIdle

NextArray ==
    \/ ArrayGetRecords
    \/ ArrayApplyChangesBegin
    \/ ArrayCreate
    \/ ArrayUpdate
    \/ ArrayDelete
    \/ ArrayApplyChangesEnd

SpecArray == InitArray /\ [][NextArray]_vars

---------------------------------------------------------------------------
(* Properties of the resolver *)

\* the spec's matching rule (4.1 step 2): name is d, or ends with "." d
ProperMatch(name, d) == name = d \/ HasSuffix(name, <<Dot>> \o d)

ProperMatches(name, ds) == {ds[i] : i \in {j \in DOMAIN ds : ProperMatch(name, ds[j])}}

Longest(S) == CHOOSE d \in S : \A e \in S : Len(e) <= Len(d)

Stripped == TrimSuffix(fqdn, <<Dot>>)

\* C7: when several known domains match the name (each is the name itself or
\* follows a dot in it), ParseFQDN returns the longest of them as domain,
\* whatever the order of the list.
C7_LongestMatchingDomain ==
    (parsed.done /\ Cardinality(ProperMatches(Stripped, domains)) >= 2)
        => parsed.domain = Longest(ProperMatches(Stripped, domains))

\* C8: ParseFQDN selects a domain d only when the name is d or ends with
\* "." d, and the host it returns is the name with exactly "." d removed
\* ("@" when the name is d).
C8_LabelBoundary ==
    (parsed.done /\ parsed.domain # EmptyString)
        => /\ ProperMatch(Stripped, parsed.domain)
           /\ \/ Stripped = parsed.domain /\ parsed.host = <<"@">>
              \/ parsed.host \o <<Dot>> \o parsed.domain = Stripped

\* C9: a name equal to a known domain d, with or without a trailing dot,
\* resolves to host "@" and domain d, never to an empty host.
C9_ApexMapping ==
    parsed.done =>
        \A i \in DOMAIN domains :
            (fqdn = domains[i] \/ fqdn = domains[i] \o <<Dot>>)
                => parsed.host = <<"@">> /\ parsed.domain = domains[i]

\* C9 happens: the apex of a child zone was resolved, written with the
\* trailing dot, while its parent zone is known too
C9_Witness ==
    /\ parsed.done
    /\ fqdn = <<"e", ".", "c", ".">>
    /\ domains = <<TopLabel, <<"e", ".", "c">>>>
    /\ parsed.host = <<"@">>
    /\ parsed.domain = <<"e", ".", "c">>

---------------------------------------------------------------------------
(* Properties of the diff *)

HasRepeatedTarget(ep) == Cardinality(Range(ep.targets)) < Len(ep.targets)

\* C2: calculateChanges(S, S) returns no creates, no updates and no deletes,
\* also when endpoints of S share a (name, recordType) or repeat a target.
C2_DiffOfSameIsEmpty ==
    (changes.done /\ current = desired)
        => changes.creates = {} /\ changes.updates = {} /\ changes.deletes = {}

\* C2 happens: the diff of a list with itself was taken, the list holding
\* two different endpoints of one key, one of them with a repeated target
C2_Witness ==
    /\ changes.done
    /\ current = desired
    /\ Len(current) = 2
    /\ Key(current[1]) = Key(current[2])
    /\ current[1] # current[2]
    /\ HasRepeatedTarget(current[1])
    /\ changes.updates = {}

\* the record IDs of the current endpoints with key k
CurrentIDs(k) == {recordIDOf(current[i]) : i \in {j \in DOMAIN current : Key(current[j]) = k}}

\* the record IDs the desired endpoints came with
DesiredIDs == {recordIDOf(desired[i]) : i \in DOMAIN desired}

\* C6: every endpoint calculateChanges places in updates carries the record
\* ID of a current endpoint with its own (name, recordType), whatever the
\* desired endpoint came with: never the desired side's ID, never the ID of
\* a current endpoint with another key.
C6_UpdateCarriesCurrentID ==
    changes.done =>
        \A u \in changes.updates :
            /\ recordIDOf(u) \in CurrentIDs(Key(u))
            /\ recordIDOf(u) \notin DesiredIDs
            /\ \A i \in DOMAIN current :
                   Key(current[i]) # Key(u) => recordIDOf(current[i]) # recordIDOf(u)

\* C6 happens: an update was computed for a desired endpoint that came with
\* an ID of its own, while current held an endpoint of another key
C6_Witness ==
    /\ changes.done
    /\ \E u \in changes.updates :
        /\ \E i \in DOMAIN desired :
              Key(desired[i]) = Key(u) /\ recordIDOf(desired[i]) = 9
        /\ \E i \in DOMAIN current : Key(current[i]) # Key(u)
        /\ recordIDOf(u) \in 1..MaxEndpoints

\* the (name, recordType) pairs of a list of endpoints
KeysOf(eps) == {Key(eps[i]) : i \in DOMAIN eps}

\* C12: the creates are the desired endpoints of the keys no current
\* endpoint has, one create for each such key and none for any other key.
C12_CreatesAreNewKeys ==
    changes.done =>
        /\ {Key(c) : c \in changes.creates} = KeysOf(desired) \ KeysOf(current)
        /\ changes.creates \subseteq Range(desired)
        /\ \A c1, c2 \in changes.creates : Key(c1) = Key(c2) => c1 = c2

\* C12 happens: current holds one record, desired holds that record and one
\* of a new key; the diff is the one create
C12_Witness ==
    /\ changes.done
    /\ Len(current) = 1 /\ Len(desired) = 2
    /\ Key(desired[1]) = Key(current[1])
    /\ Key(desired[2]) # Key(current[1])
    /\ changes.creates = {desired[2]}
    /\ changes.updates = {}
    /\ changes.deletes = {}

\* C13: the deletes are the current endpoints of the keys no desired
\* endpoint has, one delete for each such key, and such a key has no create
\* and no update.
C13_DeletesAreVanishedKeys ==
    changes.done =>
        /\ {Key(d) : d \in changes.deletes} = KeysOf(current) \ KeysOf(desired)
        /\ changes.deletes \subseteq Range(current)
        /\ \A d1, d2 \in changes.deletes : Key(d1) = Key(d2) => d1 = d2
        /\ \A d \in changes.deletes :
              \A e \in changes.creates \cup changes.updates : Key(e) # Key(d)

\* C13 happens: current holds a record of a key absent from desired beside
\* one whose desired endpoint differs; one delete, and an update of the other
C13_Witness ==
    /\ changes.done
    /\ Len(current) = 2 /\ Len(desired) = 1
    /\ Key(current[1]) # Key(desired[1])
    /\ Key(current[2]) = Key(desired[1])
    /\ changes.deletes = {current[1]}
    /\ changes.updates # {}
    /\ changes.creates = {}

\* the spec's equality (4.2): the same targets as sets and the same TTL
SameTargetsAndTTL(a, b) ==
    Range(a.targets) = Range(b.targets) /\ a.recordTTL = b.recordTTL

\* C14: for a key on both sides, endpointsEqual of the two endpoints holds
\* exactly when their target sets are equal and their TTLs are equal, and
\* calculateChanges emits an update for the key exactly when it does not.
C14_EqualityRelation ==
    changes.done =>
        \A k \in KeysOf(current) \cap KeysOf(desired) :
            LET a == currentMap(current)[k]
                b == desiredMap(desired)[k]
            IN  /\ endpointsEqual(a, b) <=> SameTargetsAndTTL(a, b)
                /\ (\E u \in changes.updates : Key(u) = k) <=> ~SameTargetsAndTTL(a, b)

---------------------------------------------------------------------------
(* Properties of a pass against the diff-based handler *)

Mutations == {"DeleteRecord", "UpdateRecord", "AddRecord"}

\* C3: within one request every DeleteRecord call is issued before any
\* UpdateRecord call, and every UpdateRecord call before any AddRecord call.
C3_DeletesThenUpdatesThenCreates ==
    \A i, j \in DOMAIN calls :
        i < j =>
            /\ ~(calls[i].op = "UpdateRecord" /\ calls[j].op = "DeleteRecord")
            /\ ~(calls[i].op = "AddRecord" /\ calls[j].op = "DeleteRecord")
            /\ ~(calls[i].op = "AddRecord" /\ calls[j].op = "UpdateRecord")

\* C3 happens: a request that deleted, updated and created has been answered
C3_Witness ==
    /\ pc = "done"
    /\ response.status = 200
    /\ \E i, j, k \in DOMAIN calls :
        /\ i < j /\ j < k
        /\ calls[i].op = "DeleteRecord" /\ calls[i].ok
        /\ calls[j].op = "UpdateRecord" /\ calls[j].ok
        /\ calls[k].op = "AddRecord" /\ calls[k].ok

\* the error each failed remote mutation is reported with
ErrorOfCall(op) ==
    CASE op = "DeleteRecord" -> "failed to delete record"
      [] op = "UpdateRecord" -> "failed to update record"
      [] op = "AddRecord" -> "failed to add record"

\* the provider's records after the successful calls of a log
RECURSIVE Replay(_, _)
Replay(st, log) ==
    IF log = <<>> THEN st
    ELSE LET c == Head(log)
         IN  Replay(IF ~c.ok THEN st
                    ELSE IF c.op = "AddRecord" THEN RemoteAdd(st, c.rec, c.rec.id)
                    ELSE IF c.op = "UpdateRecord" THEN RemoteUpdate(st, c.rec)
                    ELSE IF c.op = "DeleteRecord"
                    THEN RemoteDelete(st, c.rec.id, c.rec.domain)
                    ELSE st,
                    Tail(log))

\* C5: once a remote AddRecord, UpdateRecord or DeleteRecord call has failed,
\* no further remote call is issued in the request (the remaining targets of
\* a multi-target create included), the response is 500 with the error of
\* that call, and what the calls before it did to the provider's records
\* stays: the records are those the successful calls leave.
C5_AbortOnFirstFailure ==
    /\ \A i \in DOMAIN calls : ~calls[i].ok => i = Len(calls)
    /\ \A i \in DOMAIN calls :
          (~calls[i].ok /\ calls[i].op \in Mutations)
              => /\ pc = "done"
                 /\ response.status = 500
                 /\ response.error = ErrorOfCall(calls[i].op)
    /\ store = Replay(store0, calls)

\* C5 happens: the second AddRecord of a two-target create failed after the
\* first one had added its record
C5_Witness ==
    /\ pc = "done"
    /\ response.status = 500
    /\ \E i \in DOMAIN calls :
        /\ i + 1 = Len(calls)
        /\ calls[i].op = "AddRecord" /\ calls[i].ok
        /\ calls[i + 1].op = "AddRecord" /\ ~calls[i + 1].ok
        /\ calls[i].name = calls[i + 1].name
        /\ \E r \in Range(store) : r.id = calls[i].rec.id
    /\ pending.creates # {}

\* no known domain matches the name by the spec's rule
NoKnownDomainMatches(name, ds) == ProperMatches(TrimSuffix(name, <<Dot>>), ds) = {}

\* the endpoints the request was to create, update or delete
RequestedChanges ==
    LET r == calculateChanges(current, desired)
    IN  r.creates \cup r.updates \cup r.deletes

\* C10: for an endpoint whose name no known domain matches, no remote call
\* is issued, whether it was to be created, updated or deleted, and
\* ApplyChanges does not answer with success.
C10_NoMatchingDomainFails ==
    /\ \A i \in DOMAIN calls :
          calls[i].op \in Mutations => ~NoKnownDomainMatches(calls[i].name, localDomains)
    /\ (pc = "done" /\ response.status = 200)
          => \A ep \in RequestedChanges : ~NoKnownDomainMatches(ep.dnsName, localDomains)

TargetsAt(eps, k) ==
    UNION {Range(eps[i].targets) : i \in {j \in DOMAIN eps : Key(eps[j]) = k}}

TTLsAt(eps, k) == {eps[i].recordTTL : i \in {j \in DOMAIN eps : Key(eps[j]) = k}}

\* the desired endpoints have one endpoint per (name, recordType), each
\* under a managed domain
WantedWellFormed ==
    /\ \A i, j \in DOMAIN wanted : Key(wanted[i]) = Key(wanted[j]) => i = j
    /\ \A i \in DOMAIN wanted : ~NoKnownDomainMatches(wanted[i].dnsName, RemoteDomains)

\* C1: when the request sent back what GetRecords answered and every remote
\* call of the pass succeeded, reading the provider's records again gives, for every (name, recordType), exactly the desired
\* target set and TTL.
C1_OnePassConverges ==
    (pc = "done" /\ response.status = 200 /\ current = fetched /\ WantedWellFormed)
        => \A k \in KeysOf(wanted) \cup KeysOf(GetRecordsBody(store)) :
              /\ TargetsAt(GetRecordsBody(store), k) = TargetsAt(wanted, k)
              /\ TTLsAt(GetRecordsBody(store), k) = TTLsAt(wanted, k)

\* the request asks to update or delete an endpoint that carries no record ID
LacksIdentity ==
    \E ep \in calculateChanges(current, desired).updates
                \cup calculateChanges(current, desired).deletes : recordIDOf(ep) = 0

NoMutationIssued == \A i \in DOMAIN calls : calls[i].op \notin Mutations

\* C16: a request whose body is malformed, or in which an endpoint to update
\* or delete carries no record ID, is answered with a client-side failure
\* (4xx) and no remote add, update or delete is issued for it, not even the
\* deletes that come before the offending endpoint.
C16_InputErrorsNoRemoteCalls ==
    /\ response.status = 400 => NoMutationIssued
    /\ (pc \in {"apply", "done"} /\ LacksIdentity)
          => /\ NoMutationIssued
             /\ pc = "done" => response.status \in 400..499

\* C20: GetRecords answers with at most one endpoint for each (name,
\* recordType): records that share host, domain and type are one endpoint
\* with all their data values as targets.
C20_OneEndpointPerKey ==
    /\ \A i, j \in DOMAIN fetched : Key(fetched[i]) = Key(fetched[j]) => i = j
    /\ pc = "fetched"
          => \A k \in KeysOf(fetched) :
                TargetsAt(fetched, k) =
                    {r.data : r \in {x \in Range(store) :
                        Key(simplyToEndpoints(<<x>>)[1]) = k}}

---------------------------------------------------------------------------
(* Properties of passes one after another *)

\* the provider's records when the i-th call of the pass was issued
StoreBeforeCall(i) == Replay(store0, SubSeq(calls, 1, i - 1))

\* C18: in every pass, an UpdateRecord call carries the ID of a remote
\* record whose type is the type of the payload, and no record changes its
\* type in place: a record still there after the calls of the pass has the
\* type it had before.
C18_NoTypeChangeInPlace ==
    /\ \A i \in DOMAIN calls :
          calls[i].op = "UpdateRecord"
              => \E r \in Range(StoreBeforeCall(i)) :
                    /\ r.id = calls[i].rec.id
                    /\ r.domain = calls[i].rec.domain
                    /\ r.type = calls[i].rec.type
    /\ \A r0 \in Range(store0) : \A r \in Range(store) :
          (r.id = r0.id /\ r.domain = r0.domain) => r.type = r0.type

\* C18 happens: the name had an A record and a CNAME record is desired; the
\* pass deleted the A record and added a CNAME record under a new ID, with
\* no UpdateRecord call
C18_Witness ==
    /\ pc = "done"
    /\ response.status = 200
    /\ \E r \in Range(store0) : r.type = TypeA /\ r.host = <<"h">>
    /\ wanted = <<Endpoint(HostExampleCom, TypeCNAME, <<Target1>>, 300, <<>>)>>
    /\ \A r \in Range(store) : r.type = TypeCNAME /\ r.id \notin {x.id : x \in Range(store0)}
    /\ store # <<>>
    /\ \E i \in DOMAIN calls : calls[i].op = "DeleteRecord" /\ calls[i].ok
    /\ \E i \in DOMAIN calls : calls[i].op = "AddRecord" /\ calls[i].ok
    /\ \A i \in DOMAIN calls : calls[i].op # "UpdateRecord"

\* a pass was aborted part-way: it ended in an error after a remote call of
\* it had changed the provider's records
AbortedPartWay ==
    /\ pc = "done"
    /\ response.status = 500
    /\ \E i \in DOMAIN calls : calls[i].op \in Mutations /\ calls[i].ok

PassFailed == response.status \in {400, 500}

\* the provider's records are the desired ones: the diff of what GetRecords
\* reads with the desired endpoints is empty, and for every (name,
\* recordType) the targets and the TTL read are the desired ones
Converged ==
    LET read == GetRecordsBody(store)
        diff == calculateChanges(read, wanted)
    IN  /\ diff.creates = {} /\ diff.updates = {} /\ diff.deletes = {}
        /\ \A k \in KeysOf(wanted) \cup KeysOf(read) :
              /\ TargetsAt(read, k) = TargetsAt(wanted, k)
              /\ TTLsAt(read, k) = TTLsAt(wanted, k)

\* C19: when a pass was aborted part-way and from some pass on no pass
\* fails, the passes reach records that are the desired ones, and stay there.
C19_ConvergesAfterPartialFailure ==
    (<>AbortedPartWay /\ <>[]~PassFailed) => <>[]Converged

---------------------------------------------------------------------------
(* Properties of a request to the array-based handler *)

\* C4: no remote add of a request is issued before a remote delete of the
\* same request; so when a request deletes A h.e.c and creates CNAME h.e.c,
\* the delete call comes before the add call.
C4_DeleteBeforeAdd ==
    \A i, j \in DOMAIN calls :
        (i < j /\ calls[i].op = "AddRecord") => calls[j].op # "DeleteRecord"


\* the managed domain a name falls under: the longest one of the filter that
\* is the name or follows a dot in it
ManagedDomainsOf(name) == ProperMatches(name, ArrayDomainFilter)

\* C11: every remote add, update and delete goes to the longest managed
\* domain the endpoint name falls under, a member of the managed-domain
\* list; a change to a.d.e.c goes to d.e.c when e.c and d.e.c are managed.
C11_DomainIsManagedDomain ==
    \A i \in DOMAIN calls :
        calls[i].op \in Mutations
            => /\ ManagedDomainsOf(calls[i].name) # {}
               /\ calls[i].rec.domain = Longest(ManagedDomainsOf(calls[i].name))

\* the record IDs recordMap can resolve
Resolvable(ep) == MapKey(ep.dnsName, ep.recordType) \in DOMAIN recordMap

\* C15: ApplyChanges never gets past an endpoint to delete, or to update
\* with a change, whose record ID it cannot resolve from recordMap: the
\* request ends there with an error and is not answered with success.
C15_IdentityErrorsFail ==
    /\ \A n \in 1..cursor.deleted : Resolvable(arrayReq.delete[n])
    /\ \A n \in 1..cursor.updated :
          (n <= Len(arrayReq.updateOld) /\ arrayReq.updateOld[n] # arrayReq.updateNew[n])
              => Resolvable(arrayReq.updateNew[n])

\* a successful call op for the endpoint was issued
Issued(op, ep) ==
    \E i \in DOMAIN calls :
        /\ calls[i].op = op /\ calls[i].ok
        /\ calls[i].name = ep.dnsName
        /\ calls[i].rec.type = ep.recordType

\* C17: a request is answered with success only if every create, update and
\* delete it contains was applied to the provider, and every request is
\* answered with success or with an error.
C17_AllOrNothing ==
    /\ pc = "done" => response.status \in {204} \cup 400..599
    /\ response.status = 204
          => /\ \A n \in DOMAIN arrayReq.create :
                   \A t \in Range(arrayReq.create[n].targets) :
                       \E i \in DOMAIN calls :
                           /\ calls[i].op = "AddRecord" /\ calls[i].ok
                           /\ calls[i].name = arrayReq.create[n].dnsName
                           /\ calls[i].rec.type = arrayReq.create[n].recordType
                           /\ calls[i].rec.data = t
             /\ \A n \in DOMAIN arrayReq.delete : Issued("DeleteRecord", arrayReq.delete[n])
             /\ \A n \in DOMAIN arrayReq.updateNew :
                   \/ arrayReq.updateOld[n] = arrayReq.updateNew[n]
                   \/ Issued("UpdateRecord", arrayReq.updateNew[n])

\* the records of the managed domains of the array-based handler
ManagedRecords == ListedRecords(store, ArrayDomainFilter)

\* the listing of a managed domain failed
ListingFailed == \E i \in DOMAIN calls : calls[i].op = "ListRecords" /\ ~calls[i].ok

\* C21: GetRecords answers with success only when the listing of every
\* managed domain succeeded, and then with an endpoint for every record of
\* every managed domain; a failed listing is never answered with success and
\* a list that leaves the records of that domain out.
C21_ListingFailuresPropagate ==
    response.status = 200
        => /\ ~ListingFailed
           /\ Len(fetched) = Len(ManagedRecords)

\* the two endpoints of an update differ in type, TTL or target set
RealChange(oldEp, newEp) ==
    \/ oldEp.recordType # newEp.recordType
    \/ oldEp.recordTTL # newEp.recordTTL
    \/ Range(oldEp.targets) # Range(newEp.targets)

\* an UpdateRecord call, successful or not, was made for the endpoint
UpdateAttempted(ep) ==
    \E i \in DOMAIN calls :
        /\ calls[i].op = "UpdateRecord"
        /\ calls[i].name = ep.dnsName
        /\ calls[i].rec.type = ep.recordType

\* C27: the update loop gets past a pair (updateOld[n], updateNew[n])
\* without a remote update only when the two have the same type, TTL and
\* target set; a pair whose new endpoint has one more target, or whose old
\* endpoint has no targets, is updated.
C27_NoRealChangeDropped ==
    \A n \in 1..cursor.updated :
        (n <= Len(arrayReq.updateOld)
            /\ RealChange(arrayReq.updateOld[n], arrayReq.updateNew[n]))
                => UpdateAttempted(arrayReq.updateNew[n])

\* C29: every decoded request ends with a success or an error response,
\* without an index out of range: also when updateOld is shorter than
\* updateNew, and when an endpoint to delete has no targets.
C29_NoCrash ==
    pc = "done"
        => /\ response.status \in {200, 204} \cup 400..599
           /\ response.error # "panic: index out of range"

\* the hosts a record named name may have: the apex spellings and the
\* beginnings of the name
HostsOf(name) == {<<"@">>, EmptyString} \cup {SubSeq(name, 1, k) : k \in 1..Len(name)}

\* the records of the domains of ds for which simplyToEndpoints builds name
RecordsNamed(name, ds) ==
    {rec \in {Record(1, TypeA, host, Target1, 300, ds[i]) :
                host \in HostsOf(name), i \in DOMAIN ds} :
        simplyToEndpoints(<<rec>>)[1].dnsName = name}

\* C28: for every record of a managed domain, ParseFQDN resolves the name
\* simplyToEndpoints builds for the record to the domain of the record, so
\* an update or a delete sends the record's ID to the domain that owns it,
\* also when a managed child zone coexists with a parent zone holding a
\* multi-label host.
C28_RoundTripKeepsDomain ==
    parsed.done
        => \A rec \in RecordsNamed(fqdn, domains) : parsed.domain = rec.domain

\* the AddRecord calls of the pass for the endpoint, in the order issued
AddsFor(ep) ==
    LET ForEndpoint(c) == /\ c.op = "AddRecord"
                          /\ c.name = ep.dnsName
                          /\ c.rec.type = ep.recordType
    IN  SelectSeq(calls, ForEndpoint)

\* C22: every record createEndpoint sends for an endpoint with TTL 0 has the
\* default TTL 3600, never 0, and every record it sends for an endpoint with
\* a TTL above 0 has that TTL.
C22_ZeroTTLIsDefaulted ==
    \A n \in DOMAIN desired :
        \A k \in DOMAIN AddsFor(desired[n]) :
            AddsFor(desired[n])[k].rec.ttl =
                IF desired[n].recordTTL = 0 THEN DefaultTTL
                ELSE desired[n].recordTTL

\* the creates of the pass createEndpoint has returned from without an error
CreatedSoFar ==
    IF pc \in {"apply", "done"}
    THEN calculateChanges(current, desired).creates \ pending.creates
    ELSE {}

\* C23: for an endpoint with N targets whose domain resolves, createEndpoint
\* issues, when no call fails, exactly N AddRecord calls, one for each target
\* in the order of the targets, all with the same host, domain, type and TTL.
C23_OneAddPerTarget ==
    \A ep \in CreatedSoFar :
        LET adds == AddsFor(ep)
            p == ParseFQDN(ep.dnsName, localDomains)
        IN  /\ Len(adds) = Len(ep.targets)
            /\ \A k \in DOMAIN adds :
                  /\ adds[k].ok
                  /\ adds[k].rec.data = ep.targets[k]
                  /\ adds[k].rec.host = p.host
                  /\ adds[k].rec.domain = p.domain
                  /\ adds[k].rec.type = ep.recordType
                  /\ adds[k].rec.ttl = adds[1].rec.ttl

\* C23 happens: an endpoint with two targets was created with two calls
C23_Witness ==
    /\ pc = "done"
    /\ response.status = 200
    /\ \E ep \in CreatedSoFar : Len(ep.targets) = 2 /\ Len(AddsFor(ep)) = 2

\* the number of ListDomains calls of a log
ListDomainsCalls(log) == Cardinality({i \in DOMAIN log : log[i].op = "ListDomains"})

---------------------------------------------------------------------------
(* Properties of POST /adjustendpoints *)

\* m is the name n in lower case, without the trailing dot if n has one
LoweredAndTrimmed(n, m) ==
    /\ Len(m) = IF n # <<>> /\ n[Len(n)] = Dot THEN Len(n) - 1 ELSE Len(n)
    /\ \A k \in DOMAIN m :
          /\ m[k] \notin {cp[1] : cp \in CasePairs}
          /\ m[k] = n[k] \/ <<n[k], m[k]>> \in CasePairs

C30_NormalizeIdempotent ==
    adjustResp.status = 200
        => \A i \in DOMAIN adjustResp.body :
              LET m == adjustResp.body[i].dnsName
              IN  /\ Normalize(m) = m
                  /\ ~HasSuffix(m, <<Dot>>)

---------------------------------------------------------------------------
(* Properties of concurrent requests *)

\* C26: a request never resolves a name against a list that getDomains is
\* still filling: every list a request observes is empty or the complete
\* list ListDomains returned.
C26_NoTornList ==
    \A r \in DOMAIN requests : requests[r].seen \in {<<>>, ProviderDomains}

===========================================================================
